---- MODULE Spec2Model ----
(***************************************************************************)
(* A model of monty.serialization: the filename-to-format identifier and   *)
(* the two dispatchers loadfn and dumpfn.                                  *)
(*                                                                         *)
(* File names are sequences of one-character strings, so that the          *)
(* substring tests of _identify_format are computed on characters.         *)
(* File contents are sequences of text tokens (or msgpack byte tokens).    *)
(***************************************************************************)
EXTENDS Integers, Sequences, FiniteSets, TLC

VARIABLES
    \* --- format identification (SpecFormat) ---
    dir,        \* directory part of the path of the current call ("" or ending in "/")
    base,       \* final path component of the current call
    tag,        \* the format the call resolved
    prevDir,    \* directory part of the previous call
    prevTag,    \* the format that previous call resolved
    \* --- loadfn / dumpfn (Spec, SpecLines) ---
    fn,         \* the path the calls are made on
    msgpack,    \* TRUE iff the module-level name msgpack is not None
    YAML,       \* TRUE iff the module-level name YAML is not None
    file,       \* the file at fn on disk: NoFile or [comp, data]
    pc,         \* "idle", "load_body", "dump_body", "dump_lines", "exit"
    call,       \* the arguments of the current (or last) call
    fmt,        \* the resolved format of the current (or last) call
    kwargs,     \* the keyword options as handed to the codec (after injection)
    handle,     \* number of file handles the call holds open
    opens,      \* number of handles the current (or last) call has opened
    idx,        \* position of the jsonl writer's for loop
    exc,        \* the exception raised inside the with block, NoExc if none
    ret,        \* the value the with block returns
    outcome,    \* what the last finished call gave its caller: [status, value]
    before,     \* the file as it was when the current (or last) call started
    lastDump    \* the last dumpfn call that returned normally, NoCall if none or if one failed since

fvars == <<dir, base, tag, prevDir, prevTag>>
iovars == <<fn, msgpack, YAML, file, pc, call, fmt, kwargs, handle, opens, idx,
            exc, ret, outcome, before, lastDump>>
vars == <<dir, base, tag, prevDir, prevTag, fn, msgpack, YAML, file, pc, call, fmt,
          kwargs, handle, opens, idx, exc, ret, outcome, before, lastDump>>

(***************************************************************************)
(* Bounds                                                                  *)
(***************************************************************************)
\* Longest final path component, in fragments of Fragments.
MaxFrags == 3
\* Longest sequence handed to the JSON-Lines writer.
MaxEntries == 2

(***************************************************************************)
(* Strings                                                                 *)
(***************************************************************************)
\* str.lower() on one character (the letters the model's names use).
LowerChar(c) ==
    CASE c = "M" -> "m" [] c = "P" -> "p" [] c = "K" -> "k"
      [] c = "J" -> "j" [] c = "S" -> "s" [] c = "O" -> "o"
      [] c = "N" -> "n" [] c = "L" -> "l" [] c = "Y" -> "y"
      [] c = "A" -> "a" [] OTHER -> c

\* str.lower()
Lower(s) == [i \in 1..Len(s) |-> LowerChar(s[i])]

\* Python's "sub in s" on strings.
In(sub, s) ==
    \E i \in 0..(Len(s) - Len(sub)) : SubSeq(s, i + 1, i + Len(sub)) = sub

\* str.rfind(sep) + 1: the index after the last separator, 0 when there is none.
RECURSIVE AfterLastSep(_, _)
AfterLastSep(p, i) ==
    IF i = 0 THEN 0
    ELSE IF p[i] = "/" THEN i
    ELSE AfterLastSep(p, i - 1)

\* os.path.basename (posixpath): p[p.rfind("/") + 1:]
Basename(p) == SubSeq(p, AfterLastSep(p, Len(p)) + 1, Len(p))

\* str.endswith
EndsWith(s, suf) ==
    Len(s) >= Len(suf) /\ SubSeq(s, Len(s) - Len(suf) + 1, Len(s)) = suf

Ext_mpk == <<".", "m", "p", "k">>
Ext_yaml == <<".", "y", "a", "m", "l">>
Ext_yml == <<".", "y", "m", "l">>
Mark_jsonl == <<"j", "s", "o", "n", "l">>
Ext_gz == <<".", "g", "z">>
Ext_z == <<".", "z">>
Ext_bz2 == <<".", "b", "z", "2">>

(***************************************************************************)
(* _identify_format                                                        *)
(***************************************************************************)
\* A slip: the jsonl test made before the yaml test.
IdentifyJsonlFirst(file_name) ==
    LET basename == Lower(Basename(file_name)) IN
    IF In(Ext_mpk, basename) THEN "mpk"
    ELSE IF In(Mark_jsonl, basename) THEN "jsonl"
    ELSE IF In(Ext_yaml, basename) \/ In(Ext_yml, basename) THEN "yaml"
    ELSE "json"

\* A slip: the tests made on the whole path, not on its basename.
IdentifyWholePath(file_name) ==
    LET basename == Lower(file_name) IN
    IF In(Ext_mpk, basename) THEN "mpk"
    ELSE IF In(Ext_yaml, basename) \/ In(Ext_yml, basename) THEN "yaml"
    ELSE IF In(Mark_jsonl, basename) THEN "jsonl"
    ELSE "json"

_identify_format(file_name) ==
    LET basename == Lower(Basename(file_name)) IN
    IF In(Ext_mpk, basename) THEN "mpk"
    ELSE IF In(Ext_yaml, basename) \/ In(Ext_yml, basename) THEN "yaml"
    ELSE IF In(Mark_jsonl, basename) THEN "jsonl"
    ELSE "json"

\* fmt=None, the default of the keyword argument.
None == "None"

\* Python truthiness of a str-or-None argument.
Truthy(x) == x /= None /\ x /= ""

\* A slip: the caller's fmt is not looked at.
FormatFromNameOnly(f, file_name) == _identify_format(file_name)

\* loadfn: "fmt = fmt or _identify_format(fn)"
LoadFormat(f, file_name) ==
    IF Truthy(f) THEN f ELSE _identify_format(file_name)

\* dumpfn: "fmt = fmt or _identify_format(fn)"
DumpFormat(f, file_name) ==
    IF Truthy(f) THEN f ELSE _identify_format(file_name)

(***************************************************************************)
(* Python values                                                           *)
(*                                                                         *)
(* A value is a leaf, a dict (a sequence of <<key, leaf>> pairs in key     *)
(* order) or a list of leaves and dicts.  Leaves: "s:w", "s:1", "s:k1",    *)
(* "s:k2" are the strings 'w', '1', 'k1', 'k2'; "i:1" is the integer 1;    *)
(* "none" is None; "toy" is an MSONable application object; "rec" is the   *)
(* record (a dict with "@class") such an object is flattened to; "opaque"  *)
(* is an object no encoder knows.                                          *)
(***************************************************************************)
LeafV(c) == [kind |-> "leaf", leaf |-> c, map |-> <<>>, items |-> <<>>]
DictV(m) == [kind |-> "dict", leaf |-> "", map |-> m, items |-> <<>>]
ListV(xs) == [kind |-> "list", leaf |-> "", map |-> <<>>, items |-> xs]
NoValue == LeafV("none")

\* The leaves of a value.
RECURSIVE LeavesOf(_)
LeavesOf(v) ==
    CASE v.kind = "leaf" -> {v.leaf}
      [] v.kind = "dict" -> {v.map[i][2] : i \in 1..Len(v.map)}
      [] v.kind = "list" -> UNION {LeavesOf(v.items[i]) : i \in 1..Len(v.items)}

\* MontyEncoder.default / monty.msgpack.default on one leaf: an MSONable
\* object becomes its record.
FlattenLeaf(c) == IF c = "toy" THEN "rec" ELSE c

\* MontyDecoder.process_decoded / monty.msgpack.object_hook on one leaf: a
\* record carrying "@class" becomes the object.
ReconstructLeaf(c) == IF c = "rec" THEN "toy" ELSE c

\* The value with every application object flattened to its record.
RECURSIVE Flatten(_)
Flatten(v) ==
    CASE v.kind = "leaf" -> LeafV(FlattenLeaf(v.leaf))
      [] v.kind = "dict" ->
            DictV([i \in 1..Len(v.map) |-> <<v.map[i][1], FlattenLeaf(v.map[i][2])>>])
      [] v.kind = "list" -> ListV([i \in 1..Len(v.items) |-> Flatten(v.items[i])])

\* The value with every "@class" record turned into the object it names.
RECURSIVE Reconstruct(_)
Reconstruct(v) ==
    CASE v.kind = "leaf" -> LeafV(ReconstructLeaf(v.leaf))
      [] v.kind = "dict" ->
            DictV([i \in 1..Len(v.map) |-> <<v.map[i][1], ReconstructLeaf(v.map[i][2])>>])
      [] v.kind = "list" -> ListV([i \in 1..Len(v.items) |-> Reconstruct(v.items[i])])

\* What an encoder can write: with the object hook every MSONable object,
\* without it plain data only; never an opaque object.
Encodable(v, hook) ==
    /\ "opaque" \notin LeavesOf(v)
    /\ hook \/ "toy" \notin LeavesOf(v)

\* Iterating a value (the jsonl writer's "for jobj in obj"): a list yields
\* its items, a dict its keys.
IterItems(v) ==
    IF v.kind = "list" THEN v.items
    ELSE [i \in 1..Len(v.map) |-> LeafV(v.map[i][1])]

(***************************************************************************)
(* The values the callers pass                                             *)
(***************************************************************************)
D_empty == DictV(<<>>)
D_w == DictV(<< <<"s:k1", "s:w">> >>)
D_int == DictV(<< <<"s:k1", "i:1">> >>)
D_digits == DictV(<< <<"s:k1", "s:1">> >>)
D_two == DictV(<< <<"s:k1", "s:w">>, <<"s:k2", "i:1">> >>)
E_toy == DictV(<< <<"s:k1", "toy">>, <<"s:k2", "i:1">> >>)
E_opaque == DictV(<< <<"s:k1", "opaque">> >>)

\* Plain mappings: string keys, string and integer values.
PlainDicts == {D_empty, D_w, D_int, D_digits, D_two}

\* The entries of the sequences handed to the JSON-Lines writer.
EntryPool == {D_w, E_toy, E_opaque}

RECURSIVE SeqsUpTo(_, _)
SeqsUpTo(S, n) ==
    IF n = 0 THEN {<<>>}
    ELSE LET shorter == SeqsUpTo(S, n - 1) IN
         shorter \cup {Append(q, x) : q \in {r \in shorter : Len(r) = n - 1}, x \in S}

EntryLists == {ListV(q) : q \in SeqsUpTo(EntryPool, MaxEntries)}

(***************************************************************************)
(* The codecs.  A text is a sequence of tokens; "\n" is the line break.    *)
(***************************************************************************)
NL == "\n"

\* json.dumps of a scalar (a record is written as a nested object).
JsonLeaf(c) ==
    CASE c = "s:w" -> <<"\"w\"">>
      [] c = "s:1" -> <<"\"1\"">>
      [] c = "s:k1" -> <<"\"k1\"">>
      [] c = "s:k2" -> <<"\"k2\"">>
      [] c = "i:1" -> <<"1">>
      [] c = "none" -> <<"null">>
      [] c = "rec" -> <<"{", "\"@class\"", ":", "\"toy\"", "}">>

RECURSIVE JsonPairs(_, _)
JsonPairs(m, i) ==
    IF i > Len(m) THEN <<>>
    ELSE (IF i > 1 THEN <<",">> ELSE <<>>)
         \o JsonLeaf(m[i][1]) \o <<":">> \o JsonLeaf(m[i][2]) \o JsonPairs(m, i + 1)

JsonEntry(v) ==
    IF v.kind = "leaf" THEN JsonLeaf(v.leaf)
    ELSE <<"{">> \o JsonPairs(v.map, 1) \o <<"}">>

RECURSIVE JsonItems(_, _)
JsonItems(xs, i) ==
    IF i > Len(xs) THEN <<>>
    ELSE (IF i > 1 THEN <<",">> ELSE <<>>) \o JsonEntry(xs[i]) \o JsonItems(xs, i + 1)

\* json.dumps(v) of a plain value, with the default separators and no indent:
\* one line, no line break inside.
JsonText(v) ==
    IF v.kind = "list" THEN <<"[">> \o JsonItems(v.items, 1) \o <<"]">>
    ELSE JsonEntry(v)

\* ruamel.yaml's plain scalars; a string that would read back as an integer
\* is quoted.
YamlScalar(c) ==
    CASE c = "s:w" -> "w"
      [] c = "s:1" -> "'1'"
      [] c = "s:k1" -> "k1"
      [] c = "s:k2" -> "k2"
      [] c = "i:1" -> "1"
      [] c = "none" -> "null"

\* A block mapping: one "key: value" line per pair; lines after the first
\* are indented by ind.  An empty mapping is written in flow style.
RECURSIVE YamlPairs(_, _, _)
YamlPairs(m, i, ind) ==
    IF i > Len(m) THEN <<>>
    ELSE (IF i > 1 THEN ind ELSE <<>>)
         \o <<YamlScalar(m[i][1]), ":", YamlScalar(m[i][2]), NL>>
         \o YamlPairs(m, i + 1, ind)

YamlEntry(v, ind) ==
    IF v.kind = "leaf" THEN <<YamlScalar(v.leaf), NL>>
    ELSE IF Len(v.map) = 0 THEN <<"{", "}", NL>>
    ELSE YamlPairs(v.map, 1, ind)

RECURSIVE YamlItems(_, _)
YamlItems(xs, i) ==
    IF i > Len(xs) THEN <<>>
    ELSE <<"-">> \o YamlEntry(xs[i], <<"  ">>) \o YamlItems(xs, i + 1)

\* YAML().dump(v, fp) of a plain value (block style).
YamlText(v) ==
    IF v.kind = "list"
    THEN (IF Len(v.items) = 0 THEN <<"[", "]", NL>> ELSE YamlItems(v.items, 1))
    ELSE YamlEntry(v, <<>>)

\* msgpack: fixmap and fixarray headers by size, fixstr and fixint scalars.
MpMapHeader(n) ==
    CASE n = 0 -> "x80" [] n = 1 -> "x81" [] n = 2 -> "x82" [] OTHER -> "x83"

MpArrayHeader(n) ==
    CASE n = 0 -> "x90" [] n = 1 -> "x91" [] n = 2 -> "x92" [] n = 3 -> "x93"
      [] OTHER -> "x94"

MpLeaf(c) ==
    CASE c = "s:w" -> <<"xa1", "w">>
      [] c = "s:1" -> <<"xa1", "1">>
      [] c = "s:k1" -> <<"xa2", "k1">>
      [] c = "s:k2" -> <<"xa2", "k2">>
      [] c = "i:1" -> <<"x01">>
      [] c = "none" -> <<"xc0">>
      [] c = "rec" -> <<"x81", "xa6", "@class", "xa3", "toy">>

RECURSIVE MpPairs(_, _)
MpPairs(m, i) ==
    IF i > Len(m) THEN <<>>
    ELSE MpLeaf(m[i][1]) \o MpLeaf(m[i][2]) \o MpPairs(m, i + 1)

MpEntry(v) ==
    IF v.kind = "leaf" THEN MpLeaf(v.leaf)
    ELSE <<MpMapHeader(Len(v.map))>> \o MpPairs(v.map, 1)

RECURSIVE MpItems(_, _)
MpItems(xs, i) ==
    IF i > Len(xs) THEN <<>> ELSE MpEntry(xs[i]) \o MpItems(xs, i + 1)

\* msgpack.packb(v) of a plain value.
MpBytes(v) ==
    IF v.kind = "list" THEN <<MpArrayHeader(Len(v.items))>> \o MpItems(v.items, 1)
    ELSE MpEntry(v)

\* The bytes that are not valid UTF-8: a text-mode read of them fails.
HighBytes == {"x80", "x81", "x82", "x83", "x90", "x91", "x92", "x93", "x94",
              "xa1", "xa2", "xa3", "xa6", "xc0"}

Utf8(data) == \A i \in 1..Len(data) : data[i] \notin HighBytes

(***************************************************************************)
(* Decoding.  A parser accepts exactly the texts its grammar generates and *)
(* returns the value they denote; PlainUniverse holds every plain value    *)
(* whose text a file of the model can hold.                                *)
(***************************************************************************)
PlainLeaves == {"s:w", "s:1", "s:k1", "s:k2", "i:1", "rec"}

PlainEntries ==
    {LeafV(c) : c \in PlainLeaves}
        \cup {Flatten(d) : d \in {e \in PlainDicts \cup EntryPool : Encodable(e, TRUE)}}

PlainUniverse ==
    PlainEntries
        \cup {ListV(q) : q \in SeqsUpTo({Flatten(e) : e \in {x \in EntryPool : Encodable(x, TRUE)}},
                                        MaxEntries)}

\* The text without its trailing line breaks.
RECURSIVE StripNL(_)
StripNL(t) ==
    IF Len(t) > 0 /\ t[Len(t)] = NL THEN StripNL(SubSeq(t, 1, Len(t) - 1)) ELSE t

Ok(v) == [status |-> "ok", value |-> v]
Raise(e) == [status |-> e, value |-> NoValue]

\* json.loads(text) with the plain JSONDecoder.
JsonParse(text) ==
    LET t == StripNL(text) IN
    IF \E v \in PlainUniverse : JsonText(v) = t
    THEN Ok(CHOOSE v \in PlainUniverse : JsonText(v) = t)
    ELSE Raise("JSONDecodeError")

\* YAML().load(text): an empty stream is None, a block document is its
\* value, and a JSON text is a YAML flow document of the same value.
YamlParse(text) ==
    IF text = <<>> THEN Ok(NoValue)
    ELSE IF \E v \in PlainUniverse : "rec" \notin LeavesOf(v) /\ YamlText(v) = text
    THEN Ok(CHOOSE v \in PlainUniverse : "rec" \notin LeavesOf(v) /\ YamlText(v) = text)
    ELSE IF JsonParse(text).status = "ok" THEN JsonParse(text)
    ELSE Raise("YAMLError")

\* msgpack.unpackb(bytes) without an object hook.
MpParse(bytes) ==
    IF \E v \in PlainUniverse : MpBytes(v) = bytes
    THEN Ok(CHOOSE v \in PlainUniverse : MpBytes(v) = bytes)
    ELSE Raise("UnpackException")

\* The physical lines of a text, each with its line break (the last line
\* may lack one): what iterating a text stream yields.
RECURSIVE Lines(_, _)
Lines(t, cur) ==
    IF t = <<>> THEN (IF cur = <<>> THEN <<>> ELSE <<cur>>)
    ELSE IF Head(t) = NL THEN <<Append(cur, NL)>> \o Lines(Tail(t), <<>>)
    ELSE Lines(Tail(t), Append(cur, Head(t)))

(***************************************************************************)
(* Keyword options                                                         *)
(***************************************************************************)
Absent == "<absent>"
NoKw == [cls |-> Absent, object_hook |-> Absent, default |-> Absent]

\* The options a caller passes: none, or one object-codec key set to None.
KwPool == {NoKw, [NoKw EXCEPT !.cls = None], [NoKw EXCEPT !.object_hook = None],
           [NoKw EXCEPT !.default = None]}

\* A slip: the default written over whatever the caller passed.
InjectAlways(kw, key, dflt) == [kw EXCEPT ![key] = dflt]

\* "if key not in kwargs: kwargs[key] = dflt"
InjectDefault(kw, key, dflt) ==
    IF kw[key] = Absent THEN [kw EXCEPT ![key] = dflt] ELSE kw

\* The keywords each codec entry point takes; any other is a TypeError.
JsonLoadTakes(kw) == kw.default = Absent
JsonDumpTakes(kw) == kw.object_hook = Absent
MpLoadTakes(kw) == kw.cls = Absent /\ kw.default = Absent
MpDumpTakes(kw) == kw.cls = Absent /\ kw.object_hook = Absent
YamlTakes(kw) == kw = NoKw

(***************************************************************************)
(* The file system and zopen                                               *)
(***************************************************************************)
NoFile == [comp |-> "absent", data |-> <<>>]

\* A file some other program left at the path: not compressed, and no
\* codec of this module parses it.
OldFile == [comp |-> "none", data |-> <<"{", "[">>]

\* zopen picks the (de)compressor from the extension of the name.
Comp(file_name) ==
    LET n == Lower(file_name) IN
    IF EndsWith(n, Ext_gz) \/ EndsWith(n, Ext_z) THEN "gz"
    ELSE IF EndsWith(n, Ext_bz2) THEN "bz2"
    ELSE "none"

\* zopen(fn, "wt" / "wb"): the file is created or truncated.
OpenForWrite(file_name) == [comp |-> Comp(file_name), data |-> <<>>]

\* fp.write(text)
Write(f, text) == [f EXCEPT !.data = f.data \o text]

\* Reading the whole stream: "ok", or the error the read raises. mode is
\* "t" (text, UTF-8) or "b".
ReadError(f, file_name, mode) ==
    IF f.comp /= Comp(file_name) THEN "OSError"
    ELSE IF mode = "t" /\ ~Utf8(f.data) THEN "UnicodeDecodeError"
    ELSE "ok"

(***************************************************************************)
(* The bodies of loadfn and dumpfn                                         *)
(***************************************************************************)
NoExc == "<none>"
E_Unavailable == "RuntimeError"
E_InvalidFormat == "TypeError: Invalid format"
E_Keyword == "TypeError: unexpected keyword argument"
E_NotSerializable == "TypeError: not serializable"
E_Represent == "RepresenterError"

Formats == {"json", "jsonl", "yaml", "mpk"}

\* json.loads(text, **kw)
JsonLoads(text, kw) ==
    IF ~JsonLoadTakes(kw) THEN Raise(E_Keyword)
    ELSE LET r == JsonParse(text) IN
         IF r.status = "ok" /\ kw.cls = "MontyDecoder" THEN Ok(Reconstruct(r.value))
         ELSE r

\* [json.loads(jline, **kw) for jline in fp], from line i on.
RECURSIVE JsonLoadLines(_, _, _)
JsonLoadLines(ls, i, kw) ==
    IF i > Len(ls) THEN Ok(ListV(<<>>))
    ELSE LET r == JsonLoads(ls[i], kw) IN
         IF r.status /= "ok" THEN r
         ELSE LET rest == JsonLoadLines(ls, i + 1, kw) IN
              IF rest.status /= "ok" THEN rest
              ELSE Ok(ListV(<<r.value>> \o rest.value.items))

\* json.dumps(v, **kw): the text, or the error.
JsonDumps(v, kw) ==
    IF ~JsonDumpTakes(kw) THEN [status |-> E_Keyword, text |-> <<>>]
    ELSE IF ~Encodable(v, kw.cls = "MontyEncoder")
    THEN [status |-> E_NotSerializable, text |-> <<>>]
    ELSE [status |-> "ok", text |-> JsonText(Flatten(v))]

\* The with block of loadfn's mpk branch: msgpack.load(fp, **kw).
LoadMpk(f, file_name, kw) ==
    IF ReadError(f, file_name, "b") /= "ok" THEN Raise(ReadError(f, file_name, "b"))
    ELSE IF ~MpLoadTakes(kw) THEN Raise(E_Keyword)
    ELSE LET r == MpParse(f.data) IN
         IF r.status = "ok" /\ kw.object_hook = "object_hook"
         THEN Ok(Reconstruct(r.value))
         ELSE r

\* The with block of loadfn's text branch.
LoadText(f, file_name, format, kw, yamlThere) ==
    IF format = "yaml" THEN
        IF ~yamlThere THEN Raise(E_Unavailable)
        ELSE IF ~YamlTakes(kw) THEN Raise(E_Keyword)
        ELSE IF ReadError(f, file_name, "t") /= "ok"
        THEN Raise(ReadError(f, file_name, "t"))
        ELSE YamlParse(f.data)
    ELSE IF format \in {"json", "jsonl"} THEN
        IF ReadError(f, file_name, "t") /= "ok" THEN Raise(ReadError(f, file_name, "t"))
        ELSE IF format = "jsonl" THEN JsonLoadLines(Lines(f.data, <<>>), 1, kw)
        ELSE JsonLoads(f.data, kw)
    ELSE Raise(E_InvalidFormat)

\* loadfn: the options after the injection made before the file is opened
\* (mpk) ...
LoadKwargsAtEntry(format, kw) ==
    IF format = "mpk" THEN InjectDefault(kw, "object_hook", "object_hook") ELSE kw

\* ... and after the one made inside the with block (json, jsonl; the yaml
\* branch returns before it).
LoadKwargsInBody(format, kw) ==
    IF format \in {"json", "jsonl"} THEN InjectDefault(kw, "cls", "MontyDecoder") ELSE kw

\* dumpfn: the same two places.
DumpKwargsAtEntry(format, kw) ==
    IF format = "mpk" THEN InjectDefault(kw, "default", "default") ELSE kw

DumpKwargsInBody(format, kw) ==
    IF format \in {"json", "jsonl"} THEN InjectDefault(kw, "cls", "MontyEncoder") ELSE kw

\* The with block of dumpfn, except the jsonl loop: [status, text written].
DumpWhole(obj, format, kw, yamlThere) ==
    IF format = "mpk" THEN
        IF ~MpDumpTakes(kw) THEN [status |-> E_Keyword, text |-> <<>>]
        ELSE IF ~Encodable(obj, kw.default = "default")
        THEN [status |-> E_NotSerializable, text |-> <<>>]
        ELSE [status |-> "ok", text |-> MpBytes(Flatten(obj))]
    ELSE IF format = "yaml" THEN
        IF ~yamlThere THEN [status |-> E_Unavailable, text |-> <<>>]
        ELSE IF ~YamlTakes(kw) THEN [status |-> E_Keyword, text |-> <<>>]
        ELSE IF ~Encodable(obj, FALSE) THEN [status |-> E_Represent, text |-> <<>>]
        ELSE [status |-> "ok", text |-> YamlText(obj)]
    ELSE IF format = "json" THEN JsonDumps(obj, kw)
    ELSE [status |-> E_InvalidFormat, text |-> <<>>]

\* A slip: no line break after the entry.
LineTextNoBreak(jobj, kw) == JsonDumps(jobj, kw).text

\* json.dumps(jobj, *args, **kwargs) + "\n"
LineText(jobj, kw) == JsonDumps(jobj, kw).text \o <<NL>>

\* A slip: the handle is released on the normal path only.
ReleaseOnSuccess(h, e) == IF e = NoExc THEN h - 1 ELSE h

\* Leaving the with block, normally or by an exception: the handle is closed.
Release(h, e) == h - 1

(***************************************************************************)
(* State machine of the calls                                              *)
(***************************************************************************)
NoCall == [op |-> "none", obj |-> NoValue, fmt |-> None, kw |-> NoKw]
Running == [status |-> "running", value |-> NoValue]

\* The arguments the callers pass as fmt: nothing, the four tags, and two
\* strings outside them (the empty string is falsy).
FmtArgs == {None, "json", "jsonl", "yaml", "mpk", "garbage", ""}

\* A call that raises before it opens anything.
RaiseAtEntry(e) ==
    /\ pc' = "idle"
    /\ outcome' = Raise(e)
    /\ handle' = 0
    /\ opens' = 0
    /\ UNCHANGED <<file, lastDump>>

\* loadfn, lines 72-84: resolve the format, check msgpack, open the file.
LoadEnter(f, kw) ==
    /\ pc = "idle"
    /\ call' = [op |-> "loadfn", obj |-> NoValue, fmt |-> f, kw |-> kw]
    /\ fmt' = LoadFormat(f, fn)
    /\ kwargs' = IF fmt' = "mpk" /\ ~msgpack THEN kw ELSE LoadKwargsAtEntry(fmt', kw)
    /\ before' = file
    /\ idx' = 0
    /\ exc' = NoExc
    /\ ret' = NoValue
    /\ IF fmt' = "mpk" /\ ~msgpack THEN RaiseAtEntry(E_Unavailable)
       ELSE IF file = NoFile THEN RaiseAtEntry("FileNotFoundError")
       ELSE /\ pc' = "load_body"
            /\ outcome' = Running
            /\ handle' = 1
            /\ opens' = 1
            /\ UNCHANGED <<file, lastDump>>
    /\ UNCHANGED <<fn, msgpack, YAML>>
    /\ UNCHANGED fvars

\* loadfn, lines 79-99: the body of the with block.
LoadBody ==
    /\ pc = "load_body"
    /\ kwargs' = LoadKwargsInBody(fmt, kwargs)
    /\ LET r == IF fmt = "mpk" THEN LoadMpk(file, fn, kwargs')
                ELSE LoadText(file, fn, fmt, kwargs', YAML) IN
       /\ exc' = IF r.status = "ok" THEN NoExc ELSE r.status
       /\ ret' = r.value
    /\ pc' = "exit"
    /\ UNCHANGED <<fn, msgpack, YAML, file, call, fmt, handle, opens, idx, outcome,
                   before, lastDump>>
    /\ UNCHANGED fvars

\* dumpfn, lines 131-143: resolve the format, check msgpack, open the file
\* for writing.
DumpEnter(obj, f, kw) ==
    /\ pc = "idle"
    /\ call' = [op |-> "dumpfn", obj |-> obj, fmt |-> f, kw |-> kw]
    /\ fmt' = DumpFormat(f, fn)
    /\ kwargs' = IF fmt' = "mpk" /\ ~msgpack THEN kw ELSE DumpKwargsAtEntry(fmt', kw)
    /\ before' = file
    /\ idx' = 0
    /\ exc' = NoExc
    /\ ret' = NoValue
    /\ IF fmt' = "mpk" /\ ~msgpack THEN RaiseAtEntry(E_Unavailable)
       ELSE /\ pc' = "dump_body"
            /\ outcome' = Running
            /\ handle' = 1
            /\ opens' = 1
            /\ file' = OpenForWrite(fn)
            /\ lastDump' = NoCall
    /\ UNCHANGED <<fn, msgpack, YAML>>
    /\ UNCHANGED fvars

\* dumpfn, lines 138-160: the body of the with block; for jsonl, up to the
\* for loop.
DumpBody ==
    /\ pc = "dump_body"
    /\ kwargs' = DumpKwargsInBody(fmt, kwargs)
    /\ IF fmt = "jsonl"
       THEN /\ idx' = 1
            /\ pc' = IF Len(IterItems(call.obj)) = 0 THEN "exit" ELSE "dump_lines"
            /\ UNCHANGED <<file, exc>>
       ELSE LET r == DumpWhole(call.obj, fmt, kwargs', YAML) IN
            /\ exc' = IF r.status = "ok" THEN NoExc ELSE r.status
            /\ file' = Write(file, r.text)
            /\ pc' = "exit"
            /\ idx' = idx
    /\ UNCHANGED <<fn, msgpack, YAML, call, fmt, handle, opens, ret, outcome, before,
                   lastDump>>
    /\ UNCHANGED fvars

\* A slip: a failing entry puts the file back as it was before the call.
DumpLineRollsBack ==
    /\ pc = "dump_lines"
    /\ LET items == IterItems(call.obj)
           r == JsonDumps(items[idx], kwargs) IN
       IF r.status /= "ok"
       THEN /\ exc' = r.status
            /\ pc' = "exit"
            /\ file' = before
            /\ idx' = idx
       ELSE /\ file' = Write(file, LineText(items[idx], kwargs))
            /\ idx' = idx + 1
            /\ pc' = IF idx = Len(items) THEN "exit" ELSE "dump_lines"
            /\ exc' = exc
    /\ UNCHANGED <<fn, msgpack, YAML, call, fmt, kwargs, handle, opens, ret, outcome,
                   before, lastDump>>
    /\ UNCHANGED fvars

\* dumpfn, lines 155-156: one turn of the jsonl loop.
DumpLine ==
    /\ pc = "dump_lines"
    /\ LET items == IterItems(call.obj)
           r == JsonDumps(items[idx], kwargs) IN
       IF r.status /= "ok"
       THEN /\ exc' = r.status
            /\ pc' = "exit"
            /\ UNCHANGED <<file, idx>>
       ELSE /\ file' = Write(file, LineText(items[idx], kwargs))
            /\ idx' = idx + 1
            /\ pc' = IF idx = Len(items) THEN "exit" ELSE "dump_lines"
            /\ exc' = exc
    /\ UNCHANGED <<fn, msgpack, YAML, call, fmt, kwargs, handle, opens, ret, outcome,
                   before, lastDump>>
    /\ UNCHANGED fvars

\* Leaving the with block: the handle is closed, and the call returns its
\* value or lets the exception through.
Exit ==
    /\ pc = "exit"
    /\ handle' = Release(handle, exc)
    /\ outcome' = IF exc = NoExc THEN Ok(ret) ELSE Raise(exc)
    /\ lastDump' = IF call.op = "dumpfn" /\ exc = NoExc THEN call ELSE lastDump
    /\ pc' = "idle"
    /\ UNCHANGED <<fn, msgpack, YAML, file, call, fmt, kwargs, opens, idx, exc, ret,
                   before>>
    /\ UNCHANGED fvars

(***************************************************************************)
(* Names                                                                   *)
(***************************************************************************)
Stem == <<"m">>
Ext_json == <<".", "j", "s", "o", "n">>
Ext_jsonl == <<".", "j", "s", "o", "n", "l">>
Ext_txt == <<".", "t", "x", "t">>

\* The extensions of the round-trip test.
RoundTripPaths ==
    {Stem \o Ext_json, Stem \o Ext_yaml, Stem \o Ext_yml,
     Stem \o Ext_json \o Ext_gz, Stem \o Ext_yaml \o Ext_gz,
     Stem \o Ext_json \o Ext_bz2, Stem \o Ext_yaml \o Ext_bz2}

Paths == RoundTripPaths \cup {Stem \o Ext_txt, Stem \o Ext_mpk}

LinesPaths ==
    {Stem \o Ext_jsonl, Stem \o Ext_jsonl \o Ext_gz, Stem \o Ext_json,
     Stem \o Ext_mpk, Stem \o Ext_yaml}

\* The pieces file names are put together from.
Fragments ==
    {<<"a">>, <<"l">>, Ext_mpk, Ext_yaml, Ext_yml, Mark_jsonl, Ext_gz, Ext_bz2,
     <<".", "J", "s", "o", "n">>, <<".", "Y", "M", "L">>, <<".", "M", "p", "k">>,
     <<"j", "s", "o", "n">>}

RECURSIVE Concat(_)
Concat(q) == IF q = <<>> THEN <<>> ELSE Head(q) \o Concat(Tail(q))

\* File names: one to MaxFrags fragments.
Names == {Concat(q) : q \in SeqsUpTo(Fragments, MaxFrags) \ {<<>>}}

\* Directory parts, some holding a marker of another format.
Dirs ==
    {<<>>, <<"d", "/">>, <<"t">> \o Ext_yaml \o <<"/">>,
     <<"t">> \o Ext_mpk \o <<"/", "j", "s", "o", "n", "l", "/">>}

(***************************************************************************)
(* Specifications                                                          *)
(***************************************************************************)
IdleIO ==
    /\ pc = "idle"
    /\ call = NoCall
    /\ fmt = None
    /\ kwargs = NoKw
    /\ handle = 0
    /\ opens = 0
    /\ idx = 0
    /\ exc = NoExc
    /\ ret = NoValue
    /\ outcome = [status |-> "none", value |-> NoValue]
    /\ before = NoFile
    /\ lastDump = NoCall

IdleFormat ==
    /\ dir = <<>>
    /\ base = <<>>
    /\ tag = None
    /\ prevDir = <<>>
    /\ prevTag = None

\* The calls of one program run on one path, with plain mappings.
Init ==
    /\ fn \in Paths
    /\ msgpack \in BOOLEAN
    /\ YAML \in BOOLEAN
    /\ file \in {NoFile, OldFile}
    /\ IdleIO
    /\ IdleFormat

Next ==
    \/ \E f \in FmtArgs : LoadEnter(f, NoKw)
    \/ LoadBody
    \/ \E obj \in PlainDicts \cup {E_opaque}, f \in FmtArgs : DumpEnter(obj, f, NoKw)
    \/ DumpBody
    \/ DumpLine
    \/ Exit

Spec == Init /\ [][Next]_vars

\* The calls of one program run on one path, with sequences of entries and
\* with keyword options.
InitLines ==
    /\ fn \in LinesPaths
    /\ msgpack = TRUE
    /\ YAML = TRUE
    /\ file \in {NoFile, OldFile}
    /\ IdleIO
    /\ IdleFormat

NextLines ==
    \/ \E kw \in KwPool : LoadEnter(None, kw)
    \/ LoadBody
    \/ \E obj \in EntryLists, kw \in KwPool : DumpEnter(obj, None, kw)
    \/ DumpBody
    \/ DumpLine
    \/ Exit

SpecLines == InitLines /\ [][NextLines]_vars

\* loadfn / dumpfn called without fmt on the file named base in directory
\* d: line 72 / 131, "fmt = fmt or _identify_format(fn)".
ResolveCall(d) ==
    /\ dir' = d
    /\ tag' = LoadFormat(None, d \o base)
    /\ prevDir' = dir
    /\ prevTag' = tag
    /\ UNCHANGED base
    /\ UNCHANGED iovars

\* The file name the calls are about is any name of Names.
InitFormat ==
    /\ fn = <<>>
    /\ msgpack = TRUE
    /\ YAML = TRUE
    /\ file = NoFile
    /\ IdleIO
    /\ base \in Names
    /\ dir = <<>>
    /\ tag = None
    /\ prevDir = <<>>
    /\ prevTag = None

NextFormat == \E d \in Dirs : ResolveCall(d)

SpecFormat == InitFormat /\ [][NextFormat]_vars

(***************************************************************************)
(* Properties of the format identifier (SpecFormat)                        *)
(***************************************************************************)
\* The marker occurs somewhere in the name, whatever the case of the letters.
Occurs(marker, name) ==
    \E i \in 1..Len(name) :
        /\ i + Len(marker) - 1 <= Len(name)
        /\ \A j \in 1..Len(marker) : LowerChar(name[i + j - 1]) = marker[j]

\* C1: the tag of a call made without fmt is fixed by a priority over
\* case-insensitive substring tests on the file name: mpk if it holds
\* ".mpk"; else yaml if it holds ".yaml" or ".yml"; else jsonl if it holds
\* "jsonl"; else json.  The priority decides, not the place of the markers;
\* a trailing ".gz" or ".bz2" changes nothing; a tag always comes out.
C1_IdentifyPriority ==
    tag /= None =>
        /\ tag \in Formats
        /\ Occurs(Ext_mpk, base) => tag = "mpk"
        /\ ~Occurs(Ext_mpk, base) /\ (Occurs(Ext_yaml, base) \/ Occurs(Ext_yml, base))
              => tag = "yaml"
        /\ ~Occurs(Ext_mpk, base) /\ ~Occurs(Ext_yaml, base) /\ ~Occurs(Ext_yml, base)
              /\ Occurs(Mark_jsonl, base) => tag = "jsonl"
        /\ ~Occurs(Ext_mpk, base) /\ ~Occurs(Ext_yaml, base) /\ ~Occurs(Ext_yml, base)
              /\ ~Occurs(Mark_jsonl, base) => tag = "json"
        /\ _identify_format(dir \o base \o Ext_gz) = tag
        /\ _identify_format(dir \o base \o Ext_bz2) = tag

\* ".yaml.Jsonl", the yaml marker before the jsonl marker, resolved as yaml.
C1_Witness ==
    /\ base = Ext_yaml \o <<".", "J", "s", "o", "n">> \o <<"l">>
    /\ tag = "yaml"

\* C2: the format resolved without fmt depends on the final path component
\* only: two calls on the same file name in different directories resolve
\* the same format, whatever markers the directories hold.
C2_DirectoryIndependent ==
    (prevTag /= None /\ prevDir /= dir) => tag = prevTag

\* "a.Json" resolved as json under a directory named "t.yaml" after being
\* resolved in the current directory.
C2_Witness ==
    /\ base = <<"a">> \o <<".", "J", "s", "o", "n">>
    /\ prevTag = "json"
    /\ prevDir = <<>>
    /\ dir = <<"t">> \o Ext_yaml \o <<"/">>
    /\ tag = "json"

(***************************************************************************)
(* Properties of loadfn and dumpfn on plain mappings (Spec)                *)
(***************************************************************************)
\* A loadfn call has just finished, and the file it read is the one the
\* last dumpfn call wrote before returning normally.
LoadedAfterDump ==
    /\ pc = "idle"
    /\ call.op = "loadfn"
    /\ lastDump /= NoCall

\* C3 as stated: after dumpfn(d, path) of a plain mapping on one of the
\* round-trip paths, loadfn(path) called with the same fmt argument (none,
\* or the same override) returns d, and after several dumps the last one.
C3_RoundTripAnyOverride ==
    (/\ LoadedAfterDump
     /\ fn \in RoundTripPaths
     /\ lastDump.obj \in PlainDicts
     /\ call.fmt = lastDump.fmt)
        => outcome = Ok(lastDump.obj)

\* C3, amended: the same, for calls without override or with the same
\* override json, yaml or mpk (under the override jsonl the mapping is
\* written as one line per key).
C3_RoundTrip ==
    (/\ LoadedAfterDump
     /\ fn \in RoundTripPaths
     /\ lastDump.obj \in PlainDicts
     /\ call.fmt = lastDump.fmt
     /\ LoadFormat(call.fmt, fn) /= "jsonl")
        => outcome = Ok(lastDump.obj)

\* A two-key mapping dumped over an older file to a gzip yaml path and
\* loaded back.
C3_Witness ==
    /\ LoadedAfterDump
    /\ fn = Stem \o Ext_yaml \o Ext_gz
    /\ call.fmt = None
    /\ lastDump.fmt = None
    /\ lastDump.obj = D_two
    /\ file.comp = "gz"
    /\ outcome = Ok(D_two)

\* The state C4 is about: "m.json" written by dumpfn(d, fmt="yaml").
YamlInJsonFile ==
    /\ pc = "idle"
    /\ fn = Stem \o Ext_json
    /\ lastDump /= NoCall
    /\ lastDump.fmt = "yaml"
    /\ lastDump.obj \in PlainDicts

\* C4 as stated: the file then holds the YAML text of d; loadfn without
\* override fails with the JSON parse error; loadfn(fmt="yaml") returns d.
C4_OverrideAnyMapping ==
    YamlInJsonFile =>
        /\ file.data = YamlText(lastDump.obj)
        /\ (call.op = "loadfn" /\ call.fmt = None) => outcome.status = "JSONDecodeError"
        /\ (call.op = "loadfn" /\ call.fmt = "yaml") => outcome = Ok(lastDump.obj)

\* C4, amended: the same for every non-empty mapping (the YAML text of the
\* empty mapping, "{}", is a JSON text too).
C4_Override ==
    (YamlInJsonFile /\ lastDump.obj /= D_empty) =>
        /\ file.data = YamlText(lastDump.obj)
        /\ (call.op = "loadfn" /\ call.fmt = None) => outcome.status = "JSONDecodeError"
        /\ (call.op = "loadfn" /\ call.fmt = "yaml") => outcome = Ok(lastDump.obj)

\* loadfn("m.json") failed on the YAML text of a one-key mapping.
C4_Witness ==
    /\ YamlInJsonFile
    /\ lastDump.obj = D_w
    /\ call.op = "loadfn"
    /\ call.fmt = None
    /\ outcome.status = "JSONDecodeError"

\* A call has finished.
Finished == pc = "idle" /\ call.op /= "none"

\* C5: a call whose format tag is outside {json, jsonl, yaml, mpk} fails
\* with the invalid-format error before any I/O: it opens no file and
\* leaves the file as it was, whether or not the file exists.
C5_InvalidFormatBeforeIO ==
    (Finished /\ fmt \notin Formats) =>
        /\ outcome.status = E_InvalidFormat
        /\ opens = 0
        /\ file = before

C9_HandleLifecycle ==
    /\ opens \in {0, 1}
    /\ handle \in {0, 1}
    /\ handle <= opens
    /\ pc = "idle" => handle = 0
    /\ pc /= "idle" => handle = 1
    /\ (Finished /\ opens = 1) =>
          outcome = IF exc = NoExc THEN Ok(ret) ELSE Raise(exc)

\* A loadfn call that opened the file, failed to decode it, and is over.
C9_Witness ==
    /\ Finished
    /\ call.op = "loadfn"
    /\ opens = 1
    /\ handle = 0
    /\ exc = "JSONDecodeError"
    /\ outcome.status = "JSONDecodeError"

(***************************************************************************)
(* Properties of the JSON-Lines writer and of the keyword options          *)
(* (SpecLines)                                                             *)
(***************************************************************************)
\* The lines of entries 1..n of a sequence, as the default encoder writes
\* them: each the JSON text of the entry, then one line break.
RECURSIVE EntryLines(_, _)
EntryLines(items, n) ==
    IF n = 0 THEN <<>>
    ELSE EntryLines(items, n - 1) \o JsonText(Flatten(items[n])) \o <<NL>>

\* How many line breaks a text holds.
Breaks(t) == Cardinality({i \in 1..Len(t) : t[i] = NL})

\* The file was written by a jsonl dumpfn call that returned normally.
JsonlDumped ==
    /\ pc = "idle"
    /\ lastDump /= NoCall
    /\ DumpFormat(lastDump.fmt, fn) = "jsonl"

InjectedKey(op, format) ==
    IF format \in {"json", "jsonl"} THEN "cls"
    ELSE IF format = "mpk" THEN (IF op = "loadfn" THEN "object_hook" ELSE "default")
    ELSE "<no key>"

InjectedValue(op, format) ==
    IF format \in {"json", "jsonl"}
    THEN (IF op = "loadfn" THEN "MontyDecoder" ELSE "MontyEncoder")
    ELSE IF op = "loadfn" THEN "object_hook" ELSE "default"

\* The call has been through its with block: kwargs is what the codec got.
CodecCalled == opens = 1 /\ pc \in {"idle", "exit", "dump_lines"}

\* C8: the codec gets the caller's options with one addition at most: the
\* object-codec default under 'cls' (json, jsonl), 'object_hook' (mpk load)
\* or 'default' (mpk dump), and only if the caller passed nothing under
\* that key; a key the caller passed, even as None, arrives as passed;
\* nothing is added for yaml.  So loadfn(cls=None) of a jsonl file returns
\* plain records where loadfn() returns the objects.
C8_NoClobber ==
    /\ CodecCalled =>
          \A k \in {"cls", "object_hook", "default"} :
              kwargs[k] = IF call.kw[k] /= Absent THEN call.kw[k]
                          ELSE IF k = InjectedKey(call.op, fmt)
                          THEN InjectedValue(call.op, fmt)
                          ELSE Absent
    /\ (JsonlDumped /\ call.op = "loadfn" /\ call.kw = [NoKw EXCEPT !.cls = None])
          => outcome = Ok(Flatten(lastDump.obj))

\* loadfn(cls=None) of a jsonl file holding an object returned its record.
C8_Witness ==
    /\ JsonlDumped
    /\ call.op = "loadfn"
    /\ call.kw = [NoKw EXCEPT !.cls = None]
    /\ kwargs.cls = None
    /\ lastDump.obj = ListV(<<E_toy>>)
    /\ outcome = Ok(ListV(<<Flatten(E_toy)>>))

\* The first entry json.dumps fails on, 0 if there is none.
FirstFailing(items, kw) ==
    IF \E k \in 1..Len(items) : JsonDumps(items[k], kw).status /= "ok"
    THEN CHOOSE k \in 1..Len(items) :
            /\ JsonDumps(items[k], kw).status /= "ok"
            /\ \A j \in 1..(k - 1) : JsonDumps(items[j], kw).status = "ok"
    ELSE 0

\* C10: when the k-th entry of a jsonl dump is the first that fails to
\* encode, the caller gets the encode error, the handle is released, and
\* the file holds the lines of entries 1..k-1 and nothing else: the old
\* contents are gone, nothing of entry k or later is written, nothing is
\* rolled back.
C10_PartialWrite ==
    (/\ Finished
     /\ call.op = "dumpfn"
     /\ fmt = "jsonl"
     /\ FirstFailing(call.obj.items, kwargs) > 0)
        => LET k == FirstFailing(call.obj.items, kwargs) IN
           /\ outcome = Raise(JsonDumps(call.obj.items[k], kwargs).status)
           /\ handle = 0
           /\ file = [comp |-> Comp(fn), data |-> EntryLines(call.obj.items, k - 1)]
           /\ lastDump = NoCall

\* Over an older file, the second entry failed: one line is on disk.
C10_Witness ==
    /\ Finished
    /\ call.op = "dumpfn"
    /\ fmt = "jsonl"
    /\ before = OldFile
    /\ call.obj = ListV(<<E_toy, E_opaque>>)
    /\ outcome.status = E_NotSerializable
    /\ file.data = JsonText(Flatten(E_toy)) \o <<NL>>

====
